---- MODULE Spec2Model ----
(***************************************************************************)
(* A model of src/deleteme.py (pdf_sizes.py): per-page size accounting of  *)
(* PDF documents.  The pypdf object graph is modelled as tagged records:   *)
(* every value carries a `kind`; indirect references are resolved through  *)
(* the document's object table `objs`.  A Python call either returns a     *)
(* value or raises: results are records tagged "ok" or "raise".            *)
(***************************************************************************)
EXTENDS Integers, Sequences, FiniteSets, TLC

VARIABLES
    objs,       \* the open document's object table: object number -> object
    pages,      \* the open document's page dictionaries (reader.pages)
    arg,        \* stream_encoded_len: the value it is called with
    res,        \* stream_encoded_len: its outcome, NoCall before the call
    idx,        \* analyze_pdf: the loop index, the number of pages analyzed
    rows,       \* analyze_pdf: the rows appended so far
    pc,         \* where control is (in main, or in human_bytes under SpecHB)
    handles,    \* the file handles that are open
    n,          \* human_bytes: its argument
    f,          \* human_bytes: the float f
    u,          \* human_bytes: the unit index u
    fs,         \* the file system: path -> file
    standalone, \* args.standalone
    paths,      \* main: the de-duplicated paths
    p,          \* main: the index in paths of the path being processed
    total_bytes,\* analyze_pdf: the file's size on disk
    out         \* the lines printed so far

hbVars == <<n, f, u>>
lenVars == <<arg, res>>
envVars == <<fs, standalone, paths>>
vars == <<objs, pages, arg, res, idx, rows, pc, handles, n, f, u,
          fs, standalone, paths, p, total_bytes, out>>

----------------------------------------------------------------------------
(* Bounds of the model *)

\* decoded data of a stream has 0..MaxData bytes
MaxData == 2
\* a /Contents array has 0..MaxArr elements
MaxArr == 2
\* a document of SpecPage has 1..MaxPages pages
MaxPages == 2
\* human_bytes is applied to integers below 1024^MaxLimbs
MaxLimbs == 6

----------------------------------------------------------------------------
(* The object model (pypdf.generic) *)

Ok(v) == [tag |-> "ok", val |-> v]
Raise == [tag |-> "raise"]
NoCall == [tag |-> "nocall"]

\* Python's None, as returned by dict.get(key, None) for a missing key
None == [kind |-> "none"]
IntObj(v) == [kind |-> "int", val |-> v]
\* a FloatObject with a fractional part: int() truncates it to `whole`
RealObj(whole) == [kind |-> "real", whole |-> whole]
NameObj == [kind |-> "name"]
NullObj == [kind |-> "null"]
Ref(k) == [kind |-> "ref", id |-> k]
\* an object-table slot whose lookup raises (unparsable or, in strict mode, missing)
Broken == [kind |-> "broken"]
EmptyMap == [k \in {} |-> None]
DictObj(m) == [kind |-> "dict", map |-> m]
ArrayObj(items) == [kind |-> "array", items |-> items]
\* data: the number of bytes get_data() decodes to, or -1 when decoding raises
StreamObj(m, data) == [kind |-> "stream", map |-> m, data |-> data]

\* obj.get(key, default) of a dictionary or stream; raises AttributeError on
\* anything else (a number, a list, None, a NullObject have no such .get)
Get(obj, key, default) ==
    IF obj.kind \in {"dict", "stream"}
    THEN Ok(IF key \in DOMAIN obj.map THEN obj.map[key] ELSE default)
    ELSE Raise

\* IndirectObject.get_object(): the table's object, or the lookup raises
get_object(table, ref) ==
    IF ref.id \in DOMAIN table /\ table[ref.id].kind # "broken"
    THEN Ok(table[ref.id])
    ELSE Raise

deref(table, obj) ==
    IF obj.kind = "ref" THEN get_object(table, obj) ELSE Ok(obj)

\* int(x): defined on numbers only
int(x) ==
    CASE x.kind = "int" -> Ok(x.val)
      [] x.kind = "real" -> Ok(x.whole)
      [] OTHER -> Raise

\* len(s.get_data())
get_data_len(s) ==
    IF s.kind = "stream" /\ s.data >= 0 THEN Ok(s.data) ELSE Raise

----------------------------------------------------------------------------
(* stream_encoded_len *)

\* the body of the outer try: the declared /Length, as an integer
declared_length(table, s) ==
    LET got == Get(s, "/Length", None) IN
    IF got.tag = "raise" THEN Raise
    ELSE IF got.val = None THEN Raise
    ELSE LET length == deref(table, got.val) IN
         IF length.tag = "raise" THEN Raise ELSE int(length.val)

\* faulty variant: the fallback gives up without decoding
decoded_or_zero_nodecode(s) == Ok(0)

\* the handler of the outer try: the decoded length, or 0
decoded_or_zero(s) ==
    LET d == get_data_len(s) IN
    IF d.tag = "ok" THEN d ELSE Ok(0)

\* faulty variant: the decoded length is preferred to the declared /Length
stream_encoded_len_decoded_first(table, stream_obj) ==
    LET s == deref(table, stream_obj) IN
    IF s.tag = "raise" THEN Raise
    ELSE LET d == get_data_len(s.val) IN
         IF d.tag = "ok" THEN d
         ELSE LET l == declared_length(table, s.val) IN
              IF l.tag = "ok" THEN l ELSE Ok(0)

stream_encoded_len(table, stream_obj) ==
    LET s == deref(table, stream_obj) IN
    IF s.tag = "raise" THEN Raise
    ELSE LET l == declared_length(table, s.val) IN
         IF l.tag = "ok" THEN l ELSE decoded_or_zero(s.val)

----------------------------------------------------------------------------
(* Integers and floats of human_bytes.  Python integers are unbounded: an  *)
(* integer is the sequence of its base-1024 digits (limbs), least          *)
(* significant first, without leading zeros.  A float is num / 1024^exp    *)
(* with num an integer of at most 53 significant bits: float(n) rounds n   *)
(* to 53 bits, ties to even, and dividing by 1024.0 is exact.              *)

Base == 1024
MantissaBits == 53
units == <<"B", "KB", "MB", "GB", "TB">>

RECURSIVE Norm(_)
Norm(l) ==
    IF l # <<>> /\ l[Len(l)] = 0 THEN Norm(SubSeq(l, 1, Len(l) - 1)) ELSE l

\* the limbs of a small non-negative integer
RECURSIVE ToLimbs(_)
ToLimbs(k) == IF k = 0 THEN <<>> ELSE <<k % Base>> \o ToLimbs(k \div Base)

RECURSIVE Pow2(_)
Pow2(k) == IF k = 0 THEN 1 ELSE 2 * Pow2(k - 1)

RECURSIVE BitLen(_)
BitLen(d) == IF d = 0 THEN 0 ELSE 1 + BitLen(d \div 2)

TotalBits(l) == IF l = <<>> THEN 0 ELSE 10 * (Len(l) - 1) + BitLen(l[Len(l)])

\* l + v * 1024^(i-1), for 0 <= v < 1024
RECURSIVE AddAt(_, _, _)
AddAt(l, i, v) ==
    IF v = 0 THEN l
    ELSE IF i > Len(l) THEN AddAt(Append(l, 0), i, v)
    ELSE LET t == l[i] + v IN
         AddAt([l EXCEPT ![i] = t % Base], i + 1, t \div Base)

\* l * m + carry, for a small m
RECURSIVE MulSmall(_, _, _)
MulSmall(l, m, carry) ==
    IF l = <<>> THEN ToLimbs(carry)
    ELSE LET t == Head(l) * m + carry IN
         <<t % Base>> \o MulSmall(Tail(l), m, t \div Base)

AllZero(l) == \A i \in 1..Len(l) : l[i] = 0

\* how the low e bits of l compare with half a unit of bit e: "lt", "eq", "gt"
HalfCompare(l, e) ==
    LET q == e \div 10
        r == e % 10
        \* the limb holding bit e-1, and that bit's weight in it
        top == IF r = 0 THEN l[q] ELSE l[q + 1] % Pow2(r)
        half == IF r = 0 THEN Base \div 2 ELSE Pow2(r - 1)
        below == IF r = 0 THEN SubSeq(l, 1, q - 1) ELSE SubSeq(l, 1, q)
    IN
    IF top > half THEN "gt"
    ELSE IF top < half THEN "lt"
    ELSE IF AllZero(below) THEN "eq" ELSE "gt"

\* l rounded to a multiple of 2^e, ties to the even multiple (0 < e)
RoundBits(l, e) ==
    LET q == e \div 10
        r == e % 10
        hi == l[q + 1] \div Pow2(r)
        cmp == HalfCompare(l, e)
        up == cmp = "gt" \/ (cmp = "eq" /\ hi % 2 = 1)
        trunc == [i \in 1..Len(l) |->
                     IF i <= q THEN 0
                     ELSE IF i = q + 1 THEN hi * Pow2(r) ELSE l[i]]
    IN
    IF up THEN AddAt(trunc, q + 1, Pow2(r)) ELSE trunc

\* float(n): n itself up to 53 bits, beyond that n rounded to 53 bits
\* (an OverflowError from 2^1024 on, far beyond the integers modelled)
float(l) ==
    LET e == TotalBits(l) - MantissaBits IN
    [num |-> IF e <= 0 THEN l ELSE RoundBits(l, e), exp |-> 0]

NoFloat == [num |-> <<>>, exp |-> -1]

\* f >= 1024
AtLeast1024(x) == Len(x.num) > x.exp + 1

\* f /= 1024.0
DivideBy1024(x) == [x EXCEPT !.exp = @ + 1]

\* faulty variant: the loop tests f > 1024
loop_condition_strict(x, unit) ==
    /\ unit < Len(units) - 1
    /\ \/ Len(x.num) > x.exp + 2
       \/ /\ Len(x.num) = x.exp + 2
          /\ ~(x.num[Len(x.num)] = 1 /\ AllZero(SubSeq(x.num, 1, Len(x.num) - 1)))

\* the while condition: f >= 1024 and u < len(units) - 1
loop_condition(x, unit) == AtLeast1024(x) /\ unit < Len(units) - 1

\* f"{f:.2f}": the hundredths of the decimal nearest to f, ties to even
Hundredths(x) ==
    LET h0 == MulSmall(x.num, 100, 0)
        pad == IF x.exp + 1 > Len(h0) THEN x.exp + 1 - Len(h0) ELSE 0
        h == h0 \o [i \in 1..pad |-> 0]
        whole == Norm(SubSeq(h, x.exp + 1, Len(h)))
        cmp == IF x.exp = 0 THEN "lt" ELSE HalfCompare(h, 10 * x.exp)
        odd == whole # <<>> /\ whole[1] % 2 = 1
    IN
    IF cmp = "gt" \/ (cmp = "eq" /\ odd) THEN AddAt(whole, 1, 1) ELSE whole

\* f"{f:.2f} {units[u]}"
format(x, unit) == [hundredths |-> Hundredths(x), unit |-> units[unit + 1]]

RECURSIVE hb_loop(_, _)
hb_loop(x, unit) ==
    IF loop_condition(x, unit) THEN hb_loop(DivideBy1024(x), unit + 1)
    ELSE format(x, unit)

human_bytes(l) == hb_loop(float(l), 0)

----------------------------------------------------------------------------
(* Specification SpecHB: human_bytes, one loop iteration per step *)

HBDigits == {0, 1, 128, 512, 1023}

RECURSIVE LimbSeqs(_)
LimbSeqs(k) ==
    IF k = 0 THEN {<<>>}
    ELSE LET shorter == LimbSeqs(k - 1) IN
         shorter \cup {Append(l, d) : l \in {x \in shorter : Len(x) = k - 1},
                                      d \in HBDigits}

\* the integers of up to MaxLimbs limbs over HBDigits
HBInputs == {l \in LimbSeqs(MaxLimbs) : l = Norm(l)}

InitHB ==
    /\ n \in HBInputs
    /\ f = NoFloat /\ u = 0
    /\ pc = "hb_entry"
    /\ res = NoCall
    /\ objs = <<>> /\ pages = <<>> /\ arg = None /\ idx = 0 /\ rows = <<>>
    /\ handles = {}
    /\ fs = <<>> /\ standalone = FALSE /\ paths = <<>> /\ p = 0
    /\ total_bytes = 0 /\ out = <<>>

\* lines 24-25
HBEnter ==
    /\ pc = "hb_entry"
    /\ f' = float(n) /\ u' = 0
    /\ pc' = "hb_loop"
    /\ UNCHANGED <<objs, pages, arg, res, idx, rows, handles, n,
                   envVars, p, total_bytes, out>>

\* lines 26-28
HBIterate ==
    /\ pc = "hb_loop"
    /\ loop_condition(f, u)
    /\ f' = DivideBy1024(f) /\ u' = u + 1
    /\ UNCHANGED <<objs, pages, arg, res, idx, rows, pc, handles, n,
                   envVars, p, total_bytes, out>>

\* lines 26, 29
HBReturn ==
    /\ pc = "hb_loop"
    /\ ~loop_condition(f, u)
    /\ res' = Ok(format(f, u))
    /\ pc' = "hb_done"
    /\ UNCHANGED <<objs, pages, arg, idx, rows, handles, n, f, u,
                   envVars, p, total_bytes, out>>

NextHB == HBEnter \/ HBIterate \/ HBReturn

SpecHB == InitHB /\ [][NextHB]_vars

----------------------------------------------------------------------------
(* Claims about human_bytes, checked under SpecHB *)

\* a >= b, for integers given by their limbs
RECURSIVE LimbsGE(_, _)
LimbsGE(a, b) ==
    IF Len(a) # Len(b) THEN Len(a) > Len(b)
    ELSE IF a = <<>> THEN TRUE
    ELSE IF a[Len(a)] # b[Len(b)] THEN a[Len(a)] > b[Len(b)]
    ELSE LimbsGE(SubSeq(a, 1, Len(a) - 1), SubSeq(b, 1, Len(b) - 1))

\* min(4, floor(log_1024 n)), and 0 below 1024
ExpectedUnit(l) ==
    IF Len(l) <= 1 THEN 0 ELSE IF Len(l) - 1 > 4 THEN 4 ELSE Len(l) - 1

\* n / 1024^i to two decimals, in hundredths
ExactNumber(l, i) == Hundredths([num |-> l, exp |-> i])

Printed(h, unit) == Ok([hundredths |-> ToLimbs(h), unit |-> unit])

\* the unit, the examples and the cap of C10
UnitAndExamples ==
    /\ res.val.unit = units[ExpectedUnit(n) + 1]
    /\ n = ToLimbs(0) => res = Printed(0, "B")
    /\ n = ToLimbs(1024) => res = Printed(100, "KB")
    /\ n = ToLimbs(1536) => res = Printed(150, "KB")
    /\ n = ToLimbs(1048576) => res = Printed(100, "MB")
    /\ Len(n) >= 6 =>
          res.val.unit = "TB" /\ LimbsGE(res.val.hundredths, ToLimbs(102400))

\* C10 as stated: for every n the unit is B below 1024 and otherwise the one
\* of index min(4, floor(log_1024 n)), the number is n / 1024^index to two
\* decimals, and from 1024^5 on the unit stays TB with 1024.00 or more.
C10_ExactForEveryN ==
    pc = "hb_done" =>
        /\ UnitAndExamples
        /\ res.val.hundredths = ExactNumber(n, ExpectedUnit(n))

\* C10 amended: the unit is as stated for every n; the number is float(n)
\* / 1024^index to two decimals, which is n / 1024^index to two decimals
\* whenever n < 2^53.
C10_ExactBelow2To53 ==
    pc = "hb_done" =>
        /\ UnitAndExamples
        /\ res.val.hundredths = ExactNumber(float(n).num, ExpectedUnit(n))
        /\ TotalBits(n) <= MantissaBits =>
              res.val.hundredths = ExactNumber(n, ExpectedUnit(n))

\* C10 witness: 1024^5 was formatted, as 1024.00 TB
C10_Witness ==
    /\ pc = "hb_done"
    /\ n = <<0, 0, 0, 0, 0, 1>>
    /\ res = Printed(102400, "TB")

----------------------------------------------------------------------------
(* The per-page collectors *)

\* [deref(c) for c in items]: the first lookup that raises ends it
RECURSIVE deref_all(_, _)
deref_all(table, items) ==
    IF items = <<>> THEN Ok(<<>>)
    ELSE LET h == deref(table, Head(items)) IN
         IF h.tag = "raise" THEN Raise
         ELSE LET t == deref_all(table, Tail(items)) IN
              IF t.tag = "raise" THEN Raise ELSE Ok(<<h.val>> \o t.val)

\* faulty variant: the last element of a /Contents array is left out
iter_page_contents_short(table, page) ==
    LET contents == Get(page, "/Contents", None).val IN
    IF contents = None THEN Ok(<<>>)
    ELSE LET d == deref(table, contents) IN
         IF d.tag = "raise" THEN Raise
         ELSE IF d.val.kind = "array"
              THEN deref_all(table, SubSeq(d.val.items, 1, Len(d.val.items) - 1))
              ELSE Ok(<<d.val>>)

iter_page_contents(table, page) ==
    LET contents == Get(page, "/Contents", None).val IN
    IF contents = None THEN Ok(<<>>)
    ELSE LET d == deref(table, contents) IN
         IF d.tag = "raise" THEN Raise
         ELSE IF d.val.kind = "array"
              THEN deref_all(table, d.val.items)
              ELSE Ok(<<d.val>>)

\* Python truth value of x, as `x or {}` tests it
Falsy(x) ==
    \/ x = None
    \/ x.kind \in {"dict", "stream"} /\ DOMAIN x.map = {}
    \/ x.kind = "array" /\ x.items = <<>>
    \/ x.kind = "int" /\ x.val = 0

\* deref(d.get(key, {})) or {}
get_dict_or_empty(table, d, key) ==
    LET got == Get(d, key, DictObj(EmptyMap)) IN
    IF got.tag = "raise" THEN Raise
    ELSE LET v == deref(table, got.val) IN
         IF v.tag = "raise" THEN Raise
         ELSE Ok(IF Falsy(v.val) THEN DictObj(EmptyMap) ELSE v.val)

\* xobj.items(), visited in the order `order` lists the names
items_in_order(xobj, order) ==
    LET keys == SelectSeq(order, LAMBDA k : k \in DOMAIN xobj.map) IN
    [i \in 1..Len(keys) |-> xobj.map[keys[i]]]

\* faulty variant: values already collected are not collected again
RECURSIVE dedupe(_)
dedupe(seq) ==
    IF seq = <<>> THEN <<>>
    ELSE LET t == dedupe(Tail(seq)) IN
         IF \E i \in 1..Len(t) : t[i] = Head(seq) THEN t ELSE <<Head(seq)>> \o t

iter_page_xobjects_unique(table, page, order) ==
    LET r == get_dict_or_empty(table, page, "/Resources") IN
    IF r.tag = "raise" THEN Raise
    ELSE LET x == get_dict_or_empty(table, r.val, "/XObject") IN
         IF x.tag = "raise" THEN Raise
         ELSE IF x.val.kind \notin {"dict", "stream"} THEN Raise
         ELSE deref_all(table, dedupe(items_in_order(x.val, order)))

iter_page_xobjects(table, page, order) ==
    LET r == get_dict_or_empty(table, page, "/Resources") IN
    IF r.tag = "raise" THEN Raise
    ELSE LET x == get_dict_or_empty(table, r.val, "/XObject") IN
         IF x.tag = "raise" THEN Raise
         ELSE IF x.val.kind \notin {"dict", "stream"} THEN Raise
         ELSE deref_all(table, items_in_order(x.val, order))

\* sum(stream_encoded_len(c) for c in streams), accumulated left to right
RECURSIVE sum_lens(_, _, _)
sum_lens(table, streams, acc) ==
    IF streams = <<>> THEN Ok(acc)
    ELSE LET l == stream_encoded_len(table, Head(streams)) IN
         IF l.tag = "raise" THEN Raise
         ELSE sum_lens(table, Tail(streams), acc + l.val)

RectObj(w, h) == [kind |-> "rect", width |-> w, height |-> h]

\* page.mediabox: the page's rectangle, or the accessor raises
mediabox(page) ==
    LET mb == Get(page, "/MediaBox", None).val IN
    IF mb.kind = "rect" THEN Ok(mb) ELSE Raise

\* one iteration of analyze_pdf's loop: the row of page number index + 1.
\* rebuilt is the outcome of one_page_pdf_bytes(page), used with --standalone;
\* without it the row has no standalone_bytes, written -1 here.
analyze_page(table, page, index, order, include_standalone, rebuilt) ==
    LET mb == mediabox(page)
        cs == iter_page_contents(table, page)
        cb == sum_lens(table, cs.val, 0)
        xs == iter_page_xobjects(table, page, order)
        xb == sum_lens(table, xs.val, 0)
    IN
    IF mb.tag = "raise" THEN Raise
    ELSE IF cs.tag = "raise" THEN Raise
    ELSE IF cb.tag = "raise" THEN Raise
    ELSE IF xs.tag = "raise" THEN Raise
    ELSE IF xb.tag = "raise" THEN Raise
    ELSE IF include_standalone /\ rebuilt.tag = "raise" THEN Raise
    ELSE Ok([page |-> index + 1,
             w_pts |-> mb.val.width,
             h_pts |-> mb.val.height,
             contents_bytes |-> cb.val,
             xobj_bytes |-> xb.val,
             xobj_count |-> Len(xs.val),
             standalone_bytes |-> IF include_standalone THEN rebuilt.val ELSE -1])

----------------------------------------------------------------------------
(* main and analyze_pdf *)

PDF_PATHS ==
    <<"COMP2402 Study Session - Details - Kahoot!.pdf",
      "MATH1007 Study Session - Details - Kahoot!.pdf",
      "MATH1104 Study Session - Details - Kahoot!.pdf">>

\* lines 127-132: the paths without repetitions, first occurrences kept
RECURSIVE unique_paths(_, _)
unique_paths(list, seen) ==
    IF list = <<>> THEN <<>>
    ELSE IF Head(list) \in seen THEN unique_paths(Tail(list), seen)
    ELSE <<Head(list)>> \o unique_paths(Tail(list), seen \cup {Head(list)})

\* a file: whether path.exists(), whether open() succeeds, whether PdfReader
\* and reader.pages parse it, its size, and the document it parses to
File(exists, readable, parses, size, table, pgs) ==
    [exists |-> exists, readable |-> readable, parses |-> parses,
     size |-> size, objs |-> table, pages |-> pgs]
MissingFile == File(FALSE, FALSE, FALSE, 0, <<>>, <<>>)
UnreadableFile == File(TRUE, FALSE, FALSE, 900, <<>>, <<>>)
UnparsableFile == File(TRUE, TRUE, FALSE, 900, <<>>, <<>>)

Line(kind, data) == [file |-> p, kind |-> kind, data |-> data]

\* lines 158-169: the table row printed for r
row_line(r) ==
    Line("row",
         [page |-> r.page,
          dims |-> <<r.w_pts, r.h_pts>>,
          contents |-> human_bytes(ToLimbs(r.contents_bytes)),
          xobjects |-> human_bytes(ToLimbs(r.xobj_bytes)),
          count |-> r.xobj_count,
          standalone |-> IF standalone
                         THEN human_bytes(ToLimbs(r.standalone_bytes))
                         ELSE NoCall])

\* line 151-153
headers ==
    <<"Page", "Dims(pt)", "Contents(enc)", "XObjects(enc)", "XObj#">>
    \o (IF standalone THEN <<"1-page PDF">> ELSE <<>>)

\* lines 148-169: what is printed for an analyzed file
report_lines ==
    <<Line("size", [human |-> human_bytes(ToLimbs(total_bytes)),
                    bytes |-> total_bytes]),
      Line("pages", [count |-> Len(rows)]),
      Line("header", [columns |-> headers]),
      Line("rule", [width |-> 15 * Len(headers)])>>
    \o [i \in 1..Len(rows) |-> row_line(rows[i])]

\* the orders in which xobj.items() may visit the names
XObjectNames == {"/Im1", "/Fm1"}
Orders == {<<"/Im1", "/Fm1">>, <<"/Fm1", "/Im1">>}

\* what one_page_pdf_bytes(page) may give: a size, or the writer raises
RebuiltChoices == {Raise, Ok(700)}
\* line 109-110: one_page_pdf_bytes is called only with --standalone
RebuiltOutcomes == IF standalone THEN RebuiltChoices ELSE {NoCall}

\* lines 134-136
PrintBanner ==
    /\ pc = "banner"
    /\ p <= Len(paths)
    /\ out' = Append(out, Line("banner", [name |-> paths[p]]))
    /\ pc' = "exists"
    /\ UNCHANGED <<objs, pages, lenVars, idx, rows, handles, hbVars,
                   envVars, p, total_bytes>>

\* line 134, the list is exhausted
Finish ==
    /\ pc = "banner"
    /\ p > Len(paths)
    /\ pc' = "done"
    /\ UNCHANGED <<objs, pages, lenVars, idx, rows, handles, hbVars,
                   envVars, p, total_bytes, out>>

\* lines 138-140
CheckExists ==
    /\ pc = "exists"
    /\ IF fs[paths[p]].exists
       THEN /\ pc' = "getsize"
            /\ UNCHANGED <<p, out>>
       ELSE /\ out' = Append(out, Line("error", [message |-> "file not found"]))
            /\ p' = p + 1
            /\ pc' = "banner"
    /\ UNCHANGED <<objs, pages, lenVars, idx, rows, handles, hbVars,
                   envVars, total_bytes>>

\* lines 142-143, 84
GetSize ==
    /\ pc = "getsize"
    /\ total_bytes' = fs[paths[p]].size
    /\ pc' = "open"
    /\ UNCHANGED <<objs, pages, lenVars, idx, rows, handles, hbVars,
                   envVars, p, out>>

\* line 85: open(path, "rb")
OpenFile ==
    /\ pc = "open"
    /\ IF fs[paths[p]].readable
       THEN /\ handles' = handles \cup {p}
            /\ pc' = "reader"
       ELSE /\ pc' = "except"
            /\ UNCHANGED handles
    /\ UNCHANGED <<objs, pages, lenVars, idx, rows, hbVars,
                   envVars, p, total_bytes, out>>

\* lines 86-89; a parse failure leaves the with block, which closes f
MakeReader ==
    /\ pc = "reader"
    /\ IF fs[paths[p]].parses
       THEN /\ objs' = fs[paths[p]].objs
            /\ pages' = fs[paths[p]].pages
            /\ idx' = 0
            /\ rows' = <<>>
            /\ pc' = "loop"
            /\ UNCHANGED handles
       ELSE /\ handles' = handles \ {p}
            /\ pc' = "except"
            /\ UNCHANGED <<objs, pages, idx, rows>>
    /\ UNCHANGED <<lenVars, hbVars, envVars, p, total_bytes, out>>

\* faulty variant: a page that raises leaves the file open
AnalyzePage_leak ==
    /\ pc = "loop"
    /\ idx < Len(pages)
    /\ \E order \in Orders, rebuilt \in RebuiltOutcomes :
          LET r == analyze_page(objs, pages[idx + 1], idx, order,
                                standalone, rebuilt) IN
          IF r.tag = "ok"
          THEN /\ rows' = Append(rows, r.val)
               /\ idx' = idx + 1
               /\ UNCHANGED pc
          ELSE /\ pc' = "except"
               /\ UNCHANGED <<idx, rows>>
    /\ UNCHANGED <<objs, pages, lenVars, handles, hbVars, envVars, p,
                   total_bytes, out>>

\* faulty variant: a stream counted for an earlier page is not counted again
AnalyzePage_dedup ==
    /\ pc = "loop"
    /\ idx < Len(pages)
    /\ \E order \in Orders, rebuilt \in RebuiltOutcomes :
          LET r == analyze_page(objs, pages[idx + 1], idx, order,
                                standalone, rebuilt)
              cs == iter_page_contents(objs, pages[idx + 1]).val
              earlier == UNION {{c.val[k] : k \in 1..Len(c.val)} :
                                c \in {iter_page_contents(objs, pages[j]) :
                                       j \in 1..idx}}
              fresh == SelectSeq(cs, LAMBDA c : c \notin earlier)
          IN
          IF r.tag = "ok"
          THEN /\ rows' = Append(rows,
                     [r.val EXCEPT !.contents_bytes = sum_lens(objs, fresh, 0).val])
               /\ idx' = idx + 1
               /\ UNCHANGED <<pc, handles>>
          ELSE /\ handles' = handles \ {p}
               /\ pc' = "except"
               /\ UNCHANGED <<idx, rows>>
    /\ UNCHANGED <<objs, pages, lenVars, hbVars, envVars, p, total_bytes, out>>

\* lines 90-112: one iteration of the page loop; an exception leaves the
\* with block, which closes f, and reaches main's handler
AnalyzePage ==
    /\ pc = "loop"
    /\ idx < Len(pages)
    /\ \E order \in Orders, rebuilt \in RebuiltOutcomes :
          LET r == analyze_page(objs, pages[idx + 1], idx, order,
                                standalone, rebuilt) IN
          IF r.tag = "ok"
          THEN /\ rows' = Append(rows, r.val)
               /\ idx' = idx + 1
               /\ UNCHANGED <<pc, handles>>
          ELSE /\ handles' = handles \ {p}
               /\ pc' = "except"
               /\ UNCHANGED <<idx, rows>>
    /\ UNCHANGED <<objs, pages, lenVars, hbVars, envVars, p, total_bytes, out>>

\* lines 90, 114: the loop ends, the with block closes f, analyze_pdf returns
ReturnRows ==
    /\ pc = "loop"
    /\ idx = Len(pages)
    /\ handles' = handles \ {p}
    /\ pc' = "report"
    /\ UNCHANGED <<objs, pages, lenVars, idx, rows, hbVars, envVars, p,
                   total_bytes, out>>

\* faulty variant: the first failure ends the run
HandleException_abort ==
    /\ pc = "except"
    /\ out' = Append(out, Line("error", [message |-> "failed to read/analyze PDF"]))
    /\ pc' = "done"
    /\ UNCHANGED <<objs, pages, lenVars, idx, rows, handles, hbVars,
                   envVars, p, total_bytes>>

\* faulty variant: the rows collected before the failure are printed
HandleException_partial ==
    /\ pc = "except"
    /\ out' = Append(out, Line("error", [message |-> "failed to read/analyze PDF"]))
                 \o [i \in 1..Len(rows) |-> row_line(rows[i])]
    /\ p' = p + 1
    /\ pc' = "banner"
    /\ UNCHANGED <<objs, pages, lenVars, idx, rows, handles, hbVars,
                   envVars, total_bytes>>

\* lines 144-146
HandleException ==
    /\ pc = "except"
    /\ out' = Append(out, Line("error", [message |-> "failed to read/analyze PDF"]))
    /\ p' = p + 1
    /\ pc' = "banner"
    /\ UNCHANGED <<objs, pages, lenVars, idx, rows, handles, hbVars,
                   envVars, total_bytes>>

\* lines 148-169
PrintReport ==
    /\ pc = "report"
    /\ out' = out \o report_lines
    /\ p' = p + 1
    /\ pc' = "banner"
    /\ UNCHANGED <<objs, pages, lenVars, idx, rows, handles, hbVars,
                   envVars, total_bytes>>

----------------------------------------------------------------------------
(* Specification SpecMain: main over PDF_PATHS, every file one of a few *)

Page(entries) == DictObj(("/MediaBox" :> RectObj(612, 792)) @@ entries)

\* the three-page document of the specification's end-to-end scenario
ScenarioFile ==
    File(TRUE, TRUE, TRUE, 6000,
         <<StreamObj("/Length" :> IntObj(500), 1),
           StreamObj("/Length" :> IntObj(300), 1),
           StreamObj("/Length" :> IntObj(200), 1),
           StreamObj("/Length" :> IntObj(4096), 1)>>,
         <<Page(("/Contents" :> Ref(1)) @@ ("/Resources" :> DictObj(EmptyMap))),
           Page(("/Contents" :> ArrayObj(<<Ref(2), Ref(3)>>))
                @@ ("/Resources" :>
                       DictObj("/XObject" :> DictObj("/Im1" :> Ref(4))))),
           Page("/Contents" :> Ref(1))>>)

\* a document whose second page fails: its content stream is object 2, which
\* holds a reference to object 3, which cannot be read
BadPageFile ==
    File(TRUE, TRUE, TRUE, 1200,
         <<StreamObj("/Length" :> IntObj(500), 1), Ref(3), Broken>>,
         <<Page("/Contents" :> Ref(1)), Page("/Contents" :> Ref(2))>>)

FileChoices ==
    {MissingFile, UnreadableFile, UnparsableFile, ScenarioFile, BadPageFile}

InitMain ==
    /\ paths = unique_paths(PDF_PATHS, {})
    /\ fs \in [{PDF_PATHS[i] : i \in 1..Len(PDF_PATHS)} -> FileChoices]
    /\ standalone \in BOOLEAN
    /\ p = 1 /\ pc = "banner" /\ out = <<>> /\ handles = {}
    /\ objs = <<>> /\ pages = <<>> /\ idx = 0 /\ rows = <<>> /\ total_bytes = 0
    /\ arg = None /\ res = NoCall
    /\ n = <<>> /\ f = NoFloat /\ u = 0

NextMain ==
    \/ PrintBanner
    \/ Finish
    \/ CheckExists
    \/ GetSize
    \/ OpenFile
    \/ MakeReader
    \/ AnalyzePage
    \/ ReturnRows
    \/ HandleException
    \/ PrintReport

SpecMain == InitMain /\ [][NextMain]_vars

----------------------------------------------------------------------------
(* Specification SpecPage: analyze_pdf's page loop over a document drawn   *)
(* from bounded sets, from the point where the first file has been opened  *)
(* and its reader constructed                                              *)

\* objects 1 and 2 are streams, 3 is an array of references to them,
\* 4 is a Resources dictionary whose /XObject is object 5
ArrayObjId == 3
ResourcesObjId == 4
XObjectObjId == 5
StreamIds == {1, 2}

PageStreamChoices ==
    {StreamObj("/Length" :> IntObj(500), -1),
     StreamObj("/Length" :> IntObj(0), 1),
     StreamObj(EmptyMap, MaxData)}

Tables ==
    {<<s1,
       StreamObj(EmptyMap, MaxData),
       ArrayObj(<<Ref(1), Ref(2)>>),
       DictObj("/XObject" :> Ref(XObjectObjId)),
       DictObj(("/Im1" :> Ref(1)) @@ ("/Fm1" :> Ref(1)))>> :
        s1 \in PageStreamChoices}

RECURSIVE RefSeqs(_)
RefSeqs(k) ==
    IF k = 0 THEN {<<>>}
    ELSE LET shorter == RefSeqs(k - 1) IN
         shorter \cup {Append(a, Ref(i)) : a \in {x \in shorter : Len(x) = k - 1},
                                           i \in StreamIds}

ContentsChoices ==
    {Ref(i) : i \in StreamIds \cup {ArrayObjId}}
    \cup {ArrayObj(a) : a \in RefSeqs(MaxArr)}

XObjectMaps ==
    UNION {[names -> {Ref(i) : i \in StreamIds}] : names \in SUBSET XObjectNames}

ResourcesChoices ==
    {DictObj(EmptyMap), DictObj("/Font" :> DictObj(EmptyMap)), Ref(ResourcesObjId)}
    \cup {DictObj("/XObject" :> DictObj(m)) : m \in XObjectMaps}

\* a page varies its Contents or its Resources
PageChoices ==
    {Page(EmptyMap)}
    \cup {Page("/Contents" :> c) : c \in ContentsChoices}
    \cup {Page(("/Contents" :> Ref(1)) @@ ("/Resources" :> r)) : r \in ResourcesChoices}

RECURSIVE PageSeqs(_)
PageSeqs(k) ==
    IF k = 0 THEN {<<>>}
    ELSE LET shorter == PageSeqs(k - 1) IN
         shorter \cup {Append(a, pg) : a \in {x \in shorter : Len(x) = k - 1},
                                       pg \in PageChoices}

InitPage ==
    /\ paths = unique_paths(PDF_PATHS, {})
    /\ objs \in Tables
    /\ pages \in PageSeqs(MaxPages) \ {<<>>}
    /\ fs = [q \in {PDF_PATHS[i] : i \in 1..Len(PDF_PATHS)} |->
                IF q = PDF_PATHS[1]
                THEN File(TRUE, TRUE, TRUE, 6000, objs, pages)
                ELSE MissingFile]
    /\ standalone = FALSE
    /\ p = 1 /\ pc = "loop" /\ handles = {1}
    /\ out = <<[file |-> 1, kind |-> "banner", data |-> [name |-> PDF_PATHS[1]]]>>
    /\ idx = 0 /\ rows = <<>> /\ total_bytes = 6000
    /\ arg = None /\ res = NoCall
    /\ n = <<>> /\ f = NoFloat /\ u = 0

NextPage == AnalyzePage \/ ReturnRows

SpecPage == InitPage /\ [][NextPage]_vars

----------------------------------------------------------------------------
(* Claims about the page loop, checked under SpecPage *)

RECURSIVE SeqSum(_)
SeqSum(q) == IF q = <<>> THEN 0 ELSE Head(q) + SeqSum(Tail(q))

RECURSIVE SetSum(_, _)
SetSum(S, weight) ==
    IF S = {} THEN 0
    ELSE LET x == CHOOSE y \in S : TRUE IN weight[x] + SetSum(S \ {x}, weight)

\* the object a value of the open document stands for
Resolve(v) == IF v.kind = "ref" THEN objs[v.id] ELSE v
Entry(d, key) ==
    IF d.kind = "dict" /\ key \in DOMAIN d.map THEN Resolve(d.map[key]) ELSE None
\* the encoded length the document's object number k is accounted with
LenOfObject(k) == stream_encoded_len(objs, objs[k]).val

\* the references of a page's Contents, in order: one for a single stream
ContentRefs(pg) ==
    LET c == IF "/Contents" \in DOMAIN pg.map THEN pg.map["/Contents"] ELSE None IN
    IF c = None THEN <<>>
    ELSE IF Resolve(c).kind = "array" THEN Resolve(c).items
    ELSE <<c>>
ContentIds(pg) == {ContentRefs(pg)[k].id : k \in 1..Len(ContentRefs(pg))}
\* what a page's content streams add up to, each occurrence counted
OwnContentBytes(pg) ==
    SeqSum([k \in 1..Len(ContentRefs(pg)) |-> LenOfObject(ContentRefs(pg)[k].id)])

Analyzed == 1..Len(rows)
AllAnalyzed == idx = Len(pages)
\* two distinct analyzed pages whose Contents resolve to stream object k
Sharing(i, j, k) ==
    /\ i \in Analyzed /\ j \in Analyzed /\ i # j
    /\ k \in ContentIds(pages[i]) \cap ContentIds(pages[j])
TotalOverPages == SeqSum([i \in 1..Len(rows) |-> rows[i].contents_bytes])
UniqueTotal ==
    LET ids == UNION {ContentIds(pages[i]) : i \in 1..Len(pages)} IN
    SetSum(ids, [k \in ids |-> LenOfObject(k)])

\* C4 as stated: pages are sized independently; two distinct pages whose
\* Contents resolve to the same stream object each include its full encoded
\* length, so the sum over all pages exceeds the total over unique objects.
C4_SumExceedsUniqueTotal ==
    \A i, j \in 1..Len(pages), k \in StreamIds :
        (AllAnalyzed /\ Sharing(i, j, k)) =>
            /\ rows[i].contents_bytes = OwnContentBytes(pages[i])
            /\ rows[j].contents_bytes = OwnContentBytes(pages[j])
            /\ TotalOverPages > UniqueTotal

\* C4 amended: each of the two pages includes the shared stream's full
\* encoded length; the sum over all pages is at least the total over unique
\* objects plus that length, so it exceeds it when that length is positive.
C4_SumExceedsWhenPositive ==
    \A i, j \in 1..Len(pages), k \in StreamIds :
        (AllAnalyzed /\ Sharing(i, j, k)) =>
            /\ rows[i].contents_bytes = OwnContentBytes(pages[i])
            /\ rows[j].contents_bytes = OwnContentBytes(pages[j])
            /\ rows[i].contents_bytes >= LenOfObject(k)
            /\ rows[j].contents_bytes >= LenOfObject(k)
            /\ TotalOverPages >= UniqueTotal + LenOfObject(k)
            /\ LenOfObject(k) > 0 => TotalOverPages > UniqueTotal

\* C4 witness: both pages have the same 500-byte stream as Contents and
\* both rows report 500
C4_Witness ==
    /\ Len(rows) = 2
    /\ ContentRefs(pages[1]) = <<Ref(1)>>
    /\ ContentRefs(pages[2]) = <<Ref(1)>>
    /\ rows[1].contents_bytes = 500
    /\ rows[2].contents_bytes = 500
    /\ TotalOverPages = 1000 /\ UniqueTotal = 500

IsArrayPage(pg) == Entry(pg, "/Contents").kind = "array"
IndexPermutations(k) ==
    {pi \in [1..k -> 1..k] : \A a, b \in 1..k : pi[a] = pi[b] => a = b}
\* pg with its Contents array reordered by pi
Reordered(pg, pi) ==
    LET items == ContentRefs(pg) IN
    DictObj([pg.map EXCEPT
        !["/Contents"] = ArrayObj([k \in 1..Len(items) |-> items[pi[k]]])])
ContentsBytesOf(pg) ==
    analyze_page(objs, pg, 0, <<>>, FALSE, Raise).val.contents_bytes

\* C5: for a page whose Contents is an array of N streams, iter_page_contents
\* gives the N dereferenced streams in array order, contents_bytes is the
\* sum of their encoded lengths, and every reordering has the same sum.
C5_ArrayOrderAndSum ==
    \A i \in Analyzed :
        IsArrayPage(pages[i]) =>
            LET items == ContentRefs(pages[i]) IN
            /\ iter_page_contents(objs, pages[i])
                   = Ok([k \in 1..Len(items) |-> objs[items[k].id]])
            /\ rows[i].contents_bytes
                   = SeqSum([k \in 1..Len(items) |-> LenOfObject(items[k].id)])
            /\ \A pi \in IndexPermutations(Len(items)) :
                   ContentsBytesOf(Reordered(pages[i], pi)) = rows[i].contents_bytes

\* C5 witness: a page with an array of two streams of different lengths
\* was analyzed
C5_Witness ==
    \E i \in Analyzed :
        /\ IsArrayPage(pages[i])
        /\ ContentRefs(pages[i]) = <<Ref(2), Ref(1)>>
        /\ LenOfObject(1) = 500 /\ LenOfObject(2) = MaxData
        /\ rows[i].contents_bytes = 500 + MaxData

\* the XObject mapping of a page, None without Resources or without XObject
XObjectOf(pg) == Entry(Entry(pg, "/Resources"), "/XObject")

\* C8: without Resources, or without an XObject mapping, the page has no
\* XObjects (count 0, bytes 0, an empty sequence); with a mapping the count
\* is the number of entries and the bytes the sum of their encoded lengths,
\* whatever the order in which the mapping is visited.
C8_XObjectTotals ==
    \A i \in Analyzed :
        LET x == XObjectOf(pages[i]) IN
        IF x = None
        THEN /\ rows[i].xobj_count = 0
             /\ rows[i].xobj_bytes = 0
             /\ \A order \in Orders :
                    iter_page_xobjects(objs, pages[i], order) = Ok(<<>>)
        ELSE /\ rows[i].xobj_count = Cardinality(DOMAIN x.map)
             /\ rows[i].xobj_bytes
                    = SetSum(DOMAIN x.map,
                             [name \in DOMAIN x.map |-> LenOfObject(x.map[name].id)])
             /\ \A order \in Orders :
                    Len(iter_page_xobjects(objs, pages[i], order).val)
                        = Cardinality(DOMAIN x.map)

\* C8 witness: a page whose mapping has two names for one 500-byte stream
\* was analyzed: count 2, bytes 1000
C8_Witness ==
    \E i \in Analyzed :
        /\ XObjectOf(pages[i]) # None
        /\ DOMAIN XObjectOf(pages[i]).map = XObjectNames
        /\ \A name \in XObjectNames : XObjectOf(pages[i]).map[name] = Ref(1)
        /\ LenOfObject(1) = 500
        /\ rows[i].xobj_count = 2
        /\ rows[i].xobj_bytes = 1000

\* C8 witness of the other case: a page without Resources was analyzed
NoResourcesAnalyzed ==
    \E i \in Analyzed : "/Resources" \notin DOMAIN pages[i].map

----------------------------------------------------------------------------
(* Claims about main, checked under SpecMain *)

LinesOf(i) == SelectSeq(out, LAMBDA l : l.file = i)
Kinds(i) == [k \in 1..Len(LinesOf(i)) |-> LinesOf(i)[k].kind]
\* main's iteration for path i has ended
Completed(i) == i < p
FileOf(i) == fs[paths[i]]
ErrorOnly(i) == Kinds(i) = <<"banner", "error">>
FullReport(i) ==
    Kinds(i) = <<"banner", "size", "pages", "header", "rule">>
               \o [k \in 1..Len(FileOf(i).pages) |-> "row"]
Count(i, kind) == Len(SelectSeq(LinesOf(i), LAMBDA l : l.kind = kind))

\* some page of the file raises whatever the iteration order
SomePageRaises(file) ==
    \E k \in 1..Len(file.pages) : \A order \in Orders :
        analyze_page(file.objs, file.pages[k], k - 1, order, FALSE, Raise).tag = "raise"
Fails(file) ==
    ~file.exists \/ ~file.readable \/ ~file.parses \/ SomePageRaises(file)

\* C6: whatever files of the batch fail, main goes on to every later path
\* in order; a failing file gets exactly one ERROR line and no page row, a
\* file that does not fail gets its full report.
C6_BatchContinues ==
    /\ \A i \in 1..Len(paths) : Completed(i) =>
          /\ ErrorOnly(i) \/ FullReport(i)
          /\ Fails(FileOf(i)) =>
                Count(i, "error") = 1 /\ Count(i, "row") = 0
          /\ (~Fails(FileOf(i)) /\ ~standalone) => FullReport(i)
    /\ \A a, b \in 1..Len(out) : a < b => out[a].file <= out[b].file
    /\ pc = "done" => p = Len(paths) + 1

\* C6 witness: a missing file and a file failing on its second page were
\* followed by a file that got its full report
C6_Witness ==
    /\ pc = "done"
    /\ FileOf(1) = MissingFile /\ FileOf(2) = BadPageFile /\ FileOf(3) = ScenarioFile
    /\ ErrorOnly(1) /\ ErrorOnly(2) /\ FullReport(3)
    /\ LinesOf(3)[7].data.contents = human_bytes(ToLimbs(500))
    /\ LinesOf(3)[7].data.xobjects = human_bytes(ToLimbs(4096))
    /\ LinesOf(3)[8].data.contents = human_bytes(ToLimbs(500))

\* C7 as stated: the output for a failed file holds nothing other than the
\* single error line.
C7_OnlyTheErrorLine ==
    \A i \in 1..Len(paths) :
        (Completed(i) /\ Count(i, "error") > 0) => Kinds(i) = <<"error">>

\* C7 amended: the output for a failed file is its banner line followed by
\* the single error line: no size line, no pages line, no table header and
\* no page row, also when pages before the failing one were analyzed.
C7_BannerThenErrorLine ==
    \A i \in 1..Len(paths) :
        (Completed(i) /\ (Count(i, "error") > 0 \/ Fails(FileOf(i))))
            => Kinds(i) = <<"banner", "error">>

\* C7 witness: the first file failed on its second page, after a row for
\* its first page had been collected, and printed its banner and one error
C7_Witness ==
    /\ p = 2 /\ pc = "banner"
    /\ FileOf(1) = BadPageFile
    /\ Len(rows) = 1
    /\ Kinds(1) = <<"banner", "error">>

\* C9: at most one file handle is open at any time, and it is the current
\* file's, held only between open() and the end of the with block: it is
\* released on normal return, on a parse failure and on a failing page.
C9_HandleScoped ==
    /\ Cardinality(handles) <= 1
    /\ handles \subseteq {p}
    /\ pc \notin {"reader", "loop"} => handles = {}

\* C9 witness: the second file failed on its second page and its handle
\* was released before main's handler ran
C9_Witness ==
    /\ p = 2 /\ pc = "except"
    /\ FileOf(2) = BadPageFile
    /\ idx = 1
    /\ handles = {}

----------------------------------------------------------------------------
(* Specification SpecLen: stream_encoded_len applied to one value *)

LengthObjId == 2
TargetObjId == 1

LenVals == {0, 7, 500}
DataVals == (0..MaxData) \cup {-1}

\* what a /Length entry can hold
LengthEntries ==
    {IntObj(v) : v \in LenVals} \cup {RealObj(3), NameObj, NullObj, Ref(LengthObjId)}

StreamChoices ==
    {StreamObj(EmptyMap, d) : d \in DataVals}
    \cup {StreamObj("/Length" :> l, d) : l \in LengthEntries, d \in DataVals}

\* values that are not streams
NonStreamChoices ==
    {IntObj(7), NullObj, None, ArrayObj(<<>>), DictObj(EmptyMap),
     DictObj("/Length" :> IntObj(7))}

\* what the object a /Length reference points to can be
LengthObjChoices == {IntObj(7), NameObj, NullObj, Broken}

InitLen ==
    /\ \E t \in StreamChoices \cup NonStreamChoices \cup {Broken},
          l \in LengthObjChoices :
          objs = (TargetObjId :> t) @@ (LengthObjId :> l)
    /\ arg \in {Ref(TargetObjId)} \cup StreamChoices \cup NonStreamChoices
    /\ res = NoCall
    /\ pages = <<>> /\ idx = 0 /\ rows = <<>> /\ pc = "call" /\ handles = {}
    /\ n = <<>> /\ f = NoFloat /\ u = 0
    /\ fs = <<>> /\ standalone = FALSE /\ paths = <<>> /\ p = 0
    /\ total_bytes = 0 /\ out = <<>>

CallStreamEncodedLen ==
    /\ res = NoCall
    /\ res' = stream_encoded_len(objs, arg)
    /\ UNCHANGED <<objs, pages, arg, idx, rows, pc, handles, hbVars,
                   envVars, p, total_bytes, out>>

NextLen == CallStreamEncodedLen

SpecLen == InitLen /\ [][NextLen]_vars

----------------------------------------------------------------------------
(* Claims about stream_encoded_len, checked under SpecLen *)

\* the call's argument resolves (its object-table lookup, if any, succeeds)
ArgResolves == arg.kind = "ref" => objs[arg.id].kind # "broken"
\* the object the argument stands for
ArgObject == IF arg.kind = "ref" THEN objs[arg.id] ELSE arg
\* the object a /Length entry stands for, Broken when its lookup raises
LengthObject(s) ==
    LET e == s.map["/Length"] IN
    IF e.kind = "ref" THEN (IF e.id \in DOMAIN objs THEN objs[e.id] ELSE Broken) ELSE e
\* s has a /Length entry that is present and a number
UsableLength(s) ==
    /\ s.kind \in {"stream", "dict"}
    /\ "/Length" \in DOMAIN s.map
    /\ LengthObject(s).kind \in {"int", "real"}
LengthInteger(s) ==
    LET l == LengthObject(s) IN IF l.kind = "int" THEN l.val ELSE l.whole
Decodable(s) == s.kind = "stream" /\ s.data >= 0

\* C1: a stream whose /Length, dereferenced, is present and converts to an
\* integer yields exactly that integer, whatever its data decodes to and
\* whether or not it decodes at all.
C1_DeclaredLengthWins ==
    (res # NoCall /\ ArgResolves /\ ArgObject.kind = "stream"
        /\ UsableLength(ArgObject))
        => res = Ok(LengthInteger(ArgObject))

\* C1 witness: an undecodable stream with an indirect /Length of 7 yielded 7
C1_Witness ==
    /\ res = Ok(7)
    /\ ArgResolves /\ ArgObject.kind = "stream"
    /\ ArgObject.data = -1
    /\ "/Length" \in DOMAIN ArgObject.map
    /\ ArgObject.map["/Length"].kind = "ref"

\* C2: a stream with no /Length, or one that does not convert to an integer,
\* whose data decodes yields the number of decoded bytes.
C2_DecodedLengthFallback ==
    (res # NoCall /\ ArgResolves /\ ArgObject.kind = "stream"
        /\ ~UsableLength(ArgObject) /\ Decodable(ArgObject))
        => res = Ok(ArgObject.data)

\* C2 witness: a stream without /Length whose data decodes to 2 bytes yielded 2
C2_Witness ==
    /\ res = Ok(2)
    /\ ArgResolves /\ ArgObject.kind = "stream"
    /\ "/Length" \notin DOMAIN ArgObject.map
    /\ ArgObject.data = 2

\* C3: for every input, direct or indirect, resolvable or not, stream or not,
\* no exception escapes the call, and with neither a usable /Length nor
\* decodable data the result is 0.
C3_NothingEscapes ==
    res # NoCall =>
        /\ res.tag = "ok"
        /\ (~(ArgResolves /\ UsableLength(ArgObject))
             /\ ~(ArgResolves /\ Decodable(ArgObject))) => res = Ok(0)

\* the part of C3 the code keeps: a resolvable input with neither yields 0
ZeroWhenNeither ==
    (res # NoCall /\ ArgResolves
        /\ ~UsableLength(ArgObject) /\ ~Decodable(ArgObject)) => res = Ok(0)

====
